---- MODULE Spec2Model ----
(***************************************************************************)
(* Kalshi market scanner (src/main.py): one synchronous run of main():     *)
(* start-up, paginated fetch of the open markets closing inside the time   *)
(* window, enrichment with the time left, stable sort, rendering.          *)
(*                                                                         *)
(* Time is counted in ticks, TicksPerSec ticks to the second, so that the  *)
(* sub-second part of datetime.now() that int() cuts off is visible.       *)
(* An optional value (None or a value) is a sequence of length 0 or 1.     *)
(***************************************************************************)
EXTENDS Integers, Sequences, FiniteSets, TLC

VARIABLES
    pc,            \* position of main(): start, call, fetch, enrich, display, done, exited
    clock,         \* the wall clock, in ticks
    now,           \* get_markets_closing_soon: now (ticks), None before the call
    min_close_ts,  \* get_markets_closing_soon: min_close_ts (epoch seconds)
    max_close_ts,  \* get_markets_closing_soon: max_close_ts (epoch seconds)
    cursor,        \* get_markets_closing_soon: cursor
    markets,       \* get_markets_closing_soon: markets
    closing_soon,  \* main: closing_soon, the list get_markets_closing_soon returned
    exc,           \* the exception travelling to main's handlers, None if none
    console,       \* what console.print has written, in order
    exitCode,      \* the exit status of the process, None while it runs
    requests,      \* the first MaxLog client.get_markets calls, in order
    returned,      \* the cursors of the first MaxLog answers to them, in order
    served,        \* every market the listing capability has handed out, in order
    probe,         \* the market record handed to the row formatter on its own
    probeRow       \* what calculate_spread and the row formatter made of probe

vars == <<pc, clock, now, min_close_ts, max_close_ts, cursor, markets, closing_soon,
          exc, console, exitCode, requests, returned, served, probe, probeRow>>

\* ---------------------------------------------------------------- constants

HOURS_THRESHOLD == 24

SPREAD_THRESHOLD_CENTS == 10

PageLimit == 200

TitleMax == 47

\* ------------------------------------------------------------------- bounds

TicksPerSec == 2

StartSec == 7200

MaxClockAdvance == 1

MaxPageLen == 2

MaxMarkets == 2

MaxLog == 3

TicksPerHour == 3600 * TicksPerSec

\* The run starts on the last tick of a second.
StartTick == StartSec * TicksPerSec + TicksPerSec - 1

\* ---------------------------------------------------------- optional values

None == <<>>

Some(v) == <<v>>

\* Python truth of an optional integer: None and 0 are false.
TruthyInt(x) == x # None /\ x[1] # 0

\* Python truth of an optional string: None and "" are false.
TruthyStr(x) == x # None /\ x[1] # ""

\* `x or 0` for an optional integer x: the integer the expression yields.
OrZero(x) == IF TruthyInt(x) THEN x[1] ELSE 0

\* ------------------------------------------------------------------ markets

\* The offset of a zone suffix that datetime.fromisoformat reads, in ticks.
UtcOffsetTicks(zone) ==
    CASE zone = "+00:00" -> 0
      [] zone = "+01:00" -> TicksPerHour

\* close_time as the client hands it over: a timezone-aware datetime, or ISO-8601
\* text: the local date and time (whole seconds and a fraction) and a zone suffix,
\* "Z" standing for UTC.
NativeTime(t) == [kind |-> "datetime", t |-> t]

IsoTime(t, zone) ==
    LET local == t + (IF zone = "Z" THEN 0 ELSE UtcOffsetTicks(zone))
    IN  [kind |-> "str", secs |-> local \div TicksPerSec, frac |-> local % TicksPerSec,
         zone |-> zone]

LongTitle == [i \in 1..(TitleMax + 1) |-> "x"]

Market(id, title, close_time, yes_bid, yes_ask, no_bid, last_price) ==
    [id |-> id, title |-> title, close_time |-> close_time, yes_bid |-> yes_bid,
     yes_ask |-> yes_ask, no_bid |-> no_bid, last_price |-> last_price]

\* The markets the listing capability can hand out: closing in 0.5 h (wide quote),
\* in 25 h (no quote, last trade 62), 1 h ago (ISO text, +01:00), in 0.5 h again (tight quote, long
\* title, ISO text with Z), and one tick after the start of the run (bid 0).
Markets ==
    { Market(1, <<"A">>, NativeTime(StartTick + TicksPerHour \div 2),
             Some(40), Some(55), Some(45), Some(50)),
      Market(2, <<"B">>, NativeTime(StartTick + 25 * TicksPerHour),
             None, None, None, Some(62)),
      Market(3, <<"C">>, IsoTime(StartTick - TicksPerHour, "+01:00"),
             Some(40), Some(45), None, None),
      Market(4, LongTitle, IsoTime(StartTick + TicksPerHour \div 2, "Z"),
             Some(50), Some(50), Some(50), None),
      Market(5, <<"E">>, NativeTime(StartTick + 1),
             Some(0), Some(50), None, None) }

Pages == UNION { [1..n -> Markets] : n \in 0..MaxPageLen }

Cursors == { None, Some(""), Some("a"), Some("b") }

\* What one client.get_markets call can come back with: a page and a cursor, or
\* an exception (ApiException with its status, or any other Exception).
Exceptions ==
    { [type |-> "ApiException", status |-> 500], [type |-> "Exception", status |-> 0] }

\* --------------------------------------------------------------------- Init

Init ==
    /\ pc = "start"
    /\ clock = StartTick
    /\ now = None
    /\ min_close_ts = None
    /\ max_close_ts = None
    /\ cursor = None
    /\ markets = <<>>
    /\ closing_soon = <<>>
    /\ exc = None
    /\ console = <<>>
    /\ exitCode = None
    /\ requests = <<>>
    /\ returned = <<>>
    /\ served = <<>>
    /\ probe = None
    /\ probeRow = None

\* A line of console output.
Line(kind, arg) == [kind |-> kind, arg |-> arg]

\* ------------------------------------------------------------ pure functions

\* datetime.fromisoformat(close_time.replace("Z", "+00:00")): the instant, in ticks.
ReplaceZ(zone) == IF zone = "Z" THEN "+00:00" ELSE zone

FromIsoFormat(text) ==
    text.secs * TicksPerSec + text.frac - UtcOffsetTicks(ReplaceZ(text.zone))

\* Lines 80-82: close_time as an instant.
CloseInstant(market) ==
    IF market.close_time.kind = "str"
    THEN FromIsoFormat(market.close_time)
    ELSE market.close_time.t

\* Line 84: hours_until_close. The value kept is the exact difference in ticks,
\* that is hours_until_close * TicksPerHour; the float division by 3600 is strictly
\* monotone at this resolution, so sign and order are those of the difference.
HoursUntilClose(market, t) == CloseInstant(market) - t

RetainedOrNow(hours) == hours >= 0

\* Line 86: the test that keeps a view.
Retained(hours) == hours > 0

\* Lines 87-91: the view of one market.
View(market, t) ==
    [market |-> market, hours_until_close |-> HoursUntilClose(market, t),
     close_time |-> CloseInstant(market)]

\* Lines 78-91: the loop over markets, in order.
RECURSIVE Enrich(_, _)
Enrich(ms, t) ==
    IF ms = <<>> THEN <<>>
    ELSE LET rest == Enrich(Tail(ms), t)
         IN  IF Retained(HoursUntilClose(Head(ms), t))
             THEN <<View(Head(ms), t)>> \o rest
             ELSE rest

RECURSIVE InsertBeforeEqual(_, _)
InsertBeforeEqual(sorted, v) ==
    IF sorted = <<>> THEN <<v>>
    ELSE IF Head(sorted).hours_until_close < v.hours_until_close
         THEN <<Head(sorted)>> \o InsertBeforeEqual(Tail(sorted), v)
         ELSE <<v>> \o sorted

\* list.sort(key=...) is stable: an element goes after every element whose key is
\* not greater than its own.
RECURSIVE InsertByHours(_, _)
InsertByHours(sorted, v) ==
    IF sorted = <<>> THEN <<v>>
    ELSE IF Head(sorted).hours_until_close <= v.hours_until_close
         THEN <<Head(sorted)>> \o InsertByHours(Tail(sorted), v)
         ELSE <<v>> \o sorted

RECURSIVE SortFrom(_, _)
SortFrom(sorted, rest) ==
    IF rest = <<>> THEN sorted
    ELSE SortFrom(InsertByHours(sorted, Head(rest)), Tail(rest))

\* Line 93: result.sort(key=lambda x: x["hours_until_close"]).
SortByHours(views) == SortFrom(<<>>, views)

ExtendAtFront(acc, page) == page \o acc

\* Line 71: markets.extend(response.markets).
Extend(acc, page) == acc \o page

\* Lines 57-58: the window, in whole epoch seconds (int() cuts the fraction).
MinCloseTs(t) == t \div TicksPerSec

MaxCloseTs(t, hours) == (t + hours * 3600 * TicksPerSec) \div TicksPerSec

ListRequestFromClock(minTs, maxTs, cur) ==
    [status |-> "open", min_close_ts |-> MinCloseTs(clock),
     max_close_ts |-> MaxCloseTs(clock, HOURS_THRESHOLD), cursor |-> cur,
     limit |-> PageLimit]

\* Lines 64-70: the arguments of one client.get_markets call.
ListRequest(minTs, maxTs, cur) ==
    [status |-> "open", min_close_ts |-> minTs, max_close_ts |-> maxTs,
     cursor |-> cur, limit |-> PageLimit]

\* Line 114: f"${cents / 100:.2f}".
TwoDigits(n) == IF n < 10 THEN "0" \o ToString(n) ELSE ToString(n)

cents_to_dollars(cents) ==
    IF cents >= 0
    THEN "$" \o ToString(cents \div 100) \o "." \o TwoDigits(cents % 100)
    ELSE "$-" \o ToString((-cents) \div 100) \o "." \o TwoDigits((-cents) % 100)

\* Lines 97-109, on hours given in ticks; int() truncates.
format_time_until(hours) ==
    IF hours < TicksPerHour
    THEN ToString((hours * 60) \div TicksPerHour) \o "m"
    ELSE IF hours < 24 * TicksPerHour
    THEN LET h == hours \div TicksPerHour
             m == ((hours - h * TicksPerHour) * 60) \div TicksPerHour
         IN  ToString(h) \o "h " \o ToString(m) \o "m"
    ELSE LET days == hours \div (24 * TicksPerHour)
             h == (hours % (24 * TicksPerHour)) \div TicksPerHour
         IN  ToString(days) \o "d " \o ToString(h) \o "h"

calculate_spread_at_threshold(market) ==
    LET yes_bid == OrZero(market.yes_bid)
        yes_ask == OrZero(market.yes_ask)
        spread == IF yes_bid # 0 /\ yes_ask # 0 THEN yes_ask - yes_bid ELSE 0
    IN  [spread |-> spread, is_wide |-> spread >= SPREAD_THRESHOLD_CENTS]

\* Lines 117-131.
calculate_spread(market) ==
    LET yes_bid == OrZero(market.yes_bid)
        yes_ask == OrZero(market.yes_ask)
        spread == IF yes_bid # 0 /\ yes_ask # 0 THEN yes_ask - yes_bid ELSE 0
    IN  [spread |-> spread, is_wide |-> spread > SPREAD_THRESHOLD_CENTS]

YesPriceIfNotNone(market) ==
    IF market.yes_bid # None THEN market.yes_bid[1]
    ELSE IF market.last_price # None THEN market.last_price[1]
    ELSE 0

\* Line 155: market.yes_bid or market.last_price or 0.
YesPrice(market) ==
    IF TruthyInt(market.yes_bid) THEN market.yes_bid[1]
    ELSE IF TruthyInt(market.last_price) THEN market.last_price[1]
    ELSE 0

\* Line 156: market.no_bid or (100 - yes_price if yes_price else 0).
NoPrice(market) ==
    IF TruthyInt(market.no_bid) THEN market.no_bid[1]
    ELSE IF YesPrice(market) # 0 THEN 100 - YesPrice(market)
    ELSE 0

\* Lines 160-162: the text of the spread cell.
SpreadCell(market) ==
    LET s == calculate_spread(market)
        spread_str == IF s.spread > 0 THEN cents_to_dollars(s.spread) ELSE "-"
    IN  IF s.is_wide THEN "[bold red]" \o spread_str \o " ![/bold red]" ELSE spread_str

\* Lines 166-168: the title, a sequence of characters.
TitleCell(title) ==
    IF Len(title) > TitleMax
    THEN SubSeq(title, 1, TitleMax) \o <<".", ".", ".">>
    ELSE title

\* Lines 172-173: a price cell.
PriceCell(price) == IF price # 0 THEN cents_to_dollars(price) ELSE "-"

\* Lines 150-176: the row of one view.
Row(market, hours) ==
    [title |-> TitleCell(market.title),
     yes |-> PriceCell(YesPrice(market)),
     no |-> PriceCell(NoPrice(market)),
     spread |-> SpreadCell(market),
     time_left |-> format_time_until(hours)]

\* Line 163: the views counted as wide.
RECURSIVE WideSpreadCount(_)
WideSpreadCount(views) ==
    IF views = <<>> THEN 0
    ELSE (IF calculate_spread(Head(views).market).is_wide THEN 1 ELSE 0)
             + WideSpreadCount(Tail(views))

ExitStatusZero(e) == 0

\* Lines 218, 222, 229, 232: sys.exit(1) in every handler.
ExitStatus(e) == 1

\* ------------------------------------------------------------------ actions

\* The history keeps the first MaxLog entries.
Log(history, entry) == IF Len(history) < MaxLog THEN Append(history, entry) ELSE history

\* What lines 196-203 can come to: the credentials load and the exchange answers
\* (trading active or not), or one of the calls raises.
StartupOutcomes ==
    { [ok |-> TRUE, trading_active |-> b] : b \in BOOLEAN }
        \cup { [ok |-> FALSE, exception |-> e] :
                 e \in { [type |-> "ValueError", status |-> 0],
                         [type |-> "FileNotFoundError", status |-> 0],
                         [type |-> "ApiException", status |-> 401],
                         [type |-> "ApiException", status |-> 403] } }

\* main, lines 215-232: what the handler matching exception e prints.
HandlerLines(e) ==
    <<Line("error", e)>>
        \o (IF e.type \in { "ValueError", "FileNotFoundError" }
               \/ (e.type = "ApiException" /\ e.status \in { 401, 403 })
            THEN <<Line("hint", e)>> ELSE <<>>)

\* main, lines 189-208: banner, credentials, client, exchange status; an exception
\* goes straight to its handler, which prints and calls sys.exit.
Startup ==
    /\ pc = "start"
    /\ \E o \in StartupOutcomes :
          LET head == <<Line("banner", 0), Line("loading", 0)>>
          IN  IF o.ok
              THEN /\ pc' = "call"
                   /\ console' = console \o head \o <<Line("connecting", 0)>>
                         \o (IF o.trading_active THEN <<>> ELSE <<Line("warning", 0)>>)
                         \o <<Line("fetching", HOURS_THRESHOLD)>>
                   /\ UNCHANGED <<exc, exitCode>>
              ELSE /\ pc' = "exited"
                   /\ exc' = Some(o.exception)
                   /\ console' = console \o head
                         \o (IF o.exception.type = "ApiException"
                             THEN <<Line("connecting", 0)>> ELSE <<>>)
                         \o HandlerLines(o.exception)
                   /\ exitCode' = Some(ExitStatus(o.exception))
    /\ UNCHANGED <<clock, now, min_close_ts, max_close_ts, cursor, markets, closing_soon,
                   requests, returned, served, probe, probeRow>>

\* get_markets_closing_soon, lines 56-61: now is read once, the window computed.
BeginFetch ==
    /\ pc = "call"
    /\ now' = Some(clock)
    /\ min_close_ts' = Some(MinCloseTs(clock))
    /\ max_close_ts' = Some(MaxCloseTs(clock, HOURS_THRESHOLD))
    /\ markets' = <<>>
    /\ cursor' = None
    /\ pc' = "fetch"
    /\ UNCHANGED <<clock, closing_soon, exc, console, exitCode, requests, returned, served,
                   probe, probeRow>>

\* Lines 63-75, one turn of the loop: the call, and what it comes back with. An
\* exception leaves the function and reaches main's handler (lines 223-232).
FetchPage ==
    /\ pc = "fetch"
    /\ LET request == ListRequest(min_close_ts[1], max_close_ts[1], cursor)
       IN  \/ \E page \in Pages, next \in Cursors :
                /\ Len(markets) + Len(page) <= MaxMarkets
                /\ markets' = Extend(markets, page)
                /\ cursor' = next
                /\ pc' = IF TruthyStr(next) THEN "fetch" ELSE "enrich"
                /\ requests' = Log(requests, request)
                /\ returned' = Log(returned, next)
                /\ served' = served \o page
                /\ UNCHANGED <<exc, console, exitCode>>
           \/ \E e \in Exceptions :
                /\ exc' = Some(e)
                /\ pc' = "exited"
                /\ console' = console \o HandlerLines(e)
                /\ exitCode' = Some(ExitStatus(e))
                /\ requests' = Log(requests, request)
                /\ UNCHANGED <<markets, cursor, returned, served>>
    /\ UNCHANGED <<clock, now, min_close_ts, max_close_ts, closing_soon, probe, probeRow>>

\* Lines 77-94 and main line 210: enrich, sort, return, report the count.
EnrichAndSort ==
    /\ pc = "enrich"
    /\ closing_soon' = SortByHours(Enrich(markets, now[1]))
    /\ console' = Append(console, Line("found", Len(closing_soon')))
    /\ pc' = "display"
    /\ UNCHANGED <<clock, now, min_close_ts, max_close_ts, cursor, markets, exc, exitCode,
                   requests, returned, served, probe, probeRow>>

\* display_markets, lines 134-185, then main returns and the process ends with 0.
Display ==
    /\ pc = "display"
    /\ console' =
          IF closing_soon = <<>>
          THEN Append(console, Line("empty", 0))
          ELSE console
                 \o << Line("table", [i \in 1..Len(closing_soon) |->
                            Row(closing_soon[i].market, closing_soon[i].hours_until_close)]),
                       Line("total", Len(closing_soon)) >>
                 \o (IF WideSpreadCount(closing_soon) > 0
                     THEN <<Line("wide", WideSpreadCount(closing_soon))>> ELSE <<>>)
    /\ pc' = "done"
    /\ exitCode' = Some(0)
    /\ UNCHANGED <<clock, now, min_close_ts, max_close_ts, cursor, markets, closing_soon, exc,
                   requests, returned, served, probe, probeRow>>

\* Real time passes while the process runs.
Tick ==
    /\ pc \in { "start", "call", "fetch" }
    /\ clock < StartTick + MaxClockAdvance
    /\ clock' = clock + 1
    /\ UNCHANGED <<pc, now, min_close_ts, max_close_ts, cursor, markets, closing_soon,
                   exc, console, exitCode, requests, returned, served, probe,
                   probeRow>>

Next ==
    \/ Startup
    \/ BeginFetch
    \/ FetchPage
    \/ EnrichAndSort
    \/ Display
    \/ Tick

Spec == Init /\ [][Next]_vars

\* The run under the scheduling the code has: the process takes its next step,
\* and every client.get_markets call comes back.
LiveSpec == Spec /\ WF_vars(Next)

\* ------------------------------------------------- the row formatter on its own

PriceVals ==
    { None, Some(0), Some(40), Some(45), Some(50), Some(55), Some(62), Some(100) }

ProbeMarkets ==
    { Market(0, <<"P">>, NativeTime(StartTick + TicksPerHour), yb, ya, nb, lp) :
        yb \in PriceVals, ya \in PriceVals, nb \in PriceVals, lp \in PriceVals }

FmtInit ==
    /\ pc = "probe"
    /\ clock = StartTick
    /\ now = None
    /\ min_close_ts = None
    /\ max_close_ts = None
    /\ cursor = None
    /\ markets = <<>>
    /\ closing_soon = <<>>
    /\ exc = None
    /\ console = <<>>
    /\ exitCode = None
    /\ requests = <<>>
    /\ returned = <<>>
    /\ served = <<>>
    /\ probe = None
    /\ probeRow = None

\* calculate_spread and the row of display_markets (lines 150-176) on one market
\* with an hour left.
Probe ==
    /\ pc = "probe"
    /\ \E m \in ProbeMarkets :
          /\ probe' = Some(m)
          /\ probeRow' = Some([spread |-> calculate_spread(m),
                               row |-> Row(m, HoursUntilClose(m, StartTick))])
    /\ pc' = "probed"
    /\ UNCHANGED <<clock, now, min_close_ts, max_close_ts, cursor, markets, closing_soon,
                   exc, console, exitCode, requests, returned, served>>

FmtNext == Probe

FmtSpec == FmtInit /\ [][FmtNext]_vars

\* ------------------------------------------------------------------- claims

\* The fetch loop has been left through its break (line 75).
FetchDone == pc \in { "enrich", "display", "done" }

\* The histories hold every call of the run (nothing was left out of them).
LogComplete == Len(requests) < MaxLog

NonEmptyCursor(c) == c # <<>> /\ c[1] # ""

RECURSIVE CountNonEmpty(_)
CountNonEmpty(cs) ==
    IF cs = <<>> THEN 0
    ELSE (IF NonEmptyCursor(Head(cs)) THEN 1 ELSE 0) + CountNonEmpty(Tail(cs))

\* C1 as stated: once the loop has ended, the number of pages requested equals the
\* number of non-empty cursors returned, and the accumulated list is the
\* concatenation of the pages in request order.
C1_PagesEqualNonEmptyCursors ==
    (FetchDone /\ LogComplete) =>
        /\ Len(requests) = CountNonEmpty(returned)
        /\ markets = served

\* C1 as amended: the loop ends at the first empty cursor, after one page more
\* than the number of non-empty cursors returned, and at every moment the
\* accumulated list is the concatenation of the pages served so far, in order.
C1_PagesOneMoreThanNonEmptyCursors ==
    /\ pc \in { "fetch", "enrich", "display", "done", "exited" } => markets = served
    /\ (FetchDone /\ LogComplete) =>
          /\ Len(returned) = Len(requests)
          /\ Len(requests) = CountNonEmpty(returned) + 1
          /\ ~NonEmptyCursor(returned[Len(returned)])
          /\ \A i \in 1..(Len(returned) - 1) : NonEmptyCursor(returned[i])

\* Two pages, each with a market, the two markets different, then the empty cursor.
C1_Witness ==
    /\ pc = "enrich"
    /\ LogComplete
    /\ Len(requests) = 2
    /\ Len(markets) = 2
    /\ markets[1] # markets[2]
    /\ requests[2].cursor # <<>>
    /\ cursor = <<"">>

\* C2: no view of the returned list closes at or after now + horizon, and none has
\* already closed, whatever the listing capability returned.
C2_OnlyMarketsInsideHorizon ==
    pc \in { "display", "done" } =>
        \A i \in 1..Len(closing_soon) :
            /\ closing_soon[i].close_time > now[1]
            /\ closing_soon[i].close_time < now[1] + 24 * TicksPerHour

FetchFailed == pc = "exited" /\ now # <<>>

ReportLines == { "found", "empty", "table", "total", "wide" }

\* C3: when a page request fails the run is over: exit status 1, nothing of the
\* report (count, table, summary) was or will be printed, and no step follows, so
\* no request is issued again.
C3_FailedPageAbortsRun ==
    /\ [](FetchFailed =>
            /\ exitCode = <<1>>
            /\ \A i \in 1..Len(console) : console[i].kind \notin ReportLines
            /\ closing_soon = <<>>)
    /\ [][FetchFailed => (pc' = pc /\ requests' = requests /\ console' = console
                            /\ exitCode' = exitCode)]_vars

\* The second page request failed after the first page brought a market.
C3_Witness ==
    /\ FetchFailed
    /\ Len(requests) = 2
    /\ Len(markets) = 1
    /\ exc[1].type = "ApiException"

RECURSIVE CountIn(_, _)
CountIn(x, seq) ==
    IF seq = <<>> THEN 0
    ELSE (IF Head(seq) = x THEN 1 ELSE 0) + CountIn(x, Tail(seq))

MarketsOf(views) == [i \in 1..Len(views) |-> views[i].market]

\* C4: every view returned has hours_until_close > 0; a market that closes at or
\* before now is not in the result, and a market that closes after now is in it as
\* often as it was fetched.
C4_OnlyOpenMarketsRetained ==
    pc \in { "display", "done" } =>
        /\ \A i \in 1..Len(closing_soon) : closing_soon[i].hours_until_close > 0
        /\ \A m \in Markets :
              CountIn(m, MarketsOf(closing_soon)) =
                  IF CloseInstant(m) > now[1] THEN CountIn(m, markets) ELSE 0

\* A market closing exactly at now was fetched with one that closes later.
C4_Witness ==
    /\ pc = "display"
    /\ \E i \in 1..Len(markets) : CloseInstant(markets[i]) = now[1]
    /\ Len(closing_soon) = 1

\* The views of a list whose hours_until_close is k, in the order of the list.
WithHours(views, k) ==
    LET Same(v) == v.hours_until_close = k
    IN  SelectSeq(views, Same)

\* C5: the returned list holds the retained views, each as often as it was
\* retained, in non-decreasing hours_until_close, and the views that share a value
\* stand in the order in which they were fetched.
C5_StableAscendingSort ==
    pc \in { "display", "done" } =>
        LET retained == Enrich(markets, now[1])
        IN  /\ Len(closing_soon) = Len(retained)
            /\ \A i \in 1..Len(retained) :
                  CountIn(retained[i], closing_soon) = CountIn(retained[i], retained)
            /\ \A i \in 1..(Len(closing_soon) - 1) :
                  closing_soon[i].hours_until_close <= closing_soon[i + 1].hours_until_close
            /\ \A i \in 1..Len(closing_soon) :
                  LET k == closing_soon[i].hours_until_close
                  IN  WithHours(closing_soon, k) = WithHours(retained, k)

\* Two different markets with the same time left came out of the sort.
C5_Witness ==
    /\ pc = "display"
    /\ Len(closing_soon) = 2
    /\ closing_soon[1].hours_until_close = closing_soon[2].hours_until_close
    /\ closing_soon[1].market # closing_soon[2].market

TightQuote(m) ==
    /\ m.yes_bid # <<>> /\ m.yes_ask # <<>>
    /\ m.yes_bid[1] # 0 /\ m.yes_ask[1] # 0
    /\ m.yes_bid[1] = m.yes_ask[1]

NoQuote(m) ==
    \/ m.yes_bid = <<>> \/ m.yes_ask = <<>>
    \/ m.yes_bid[1] = 0 \/ m.yes_ask[1] = 0

\* C6: in a rendered table the spread cell of a market with a tight quote (bid and
\* ask equal and non-zero) never reads like the spread cell of a market with no
\* quote.
C6_TightSpreadDiffersFromNoQuote ==
    pc = "done" =>
        \A l \in 1..Len(console) :
            console[l].kind = "table" =>
                \A i, j \in 1..Len(closing_soon) :
                    (TightQuote(closing_soon[i].market) /\ NoQuote(closing_soon[j].market))
                        => console[l].arg[i].spread # console[l].arg[j].spread

\* C7: spread is ask - bid when both are present and non-zero and 0 otherwise;
\* is_wide exactly when spread > 10; with the four cases the spec lists.
C7_SpreadRule ==
    probe # <<>> =>
        LET m == probe[1]
            got == probeRow[1].spread
            quoted == /\ m.yes_bid # <<>> /\ m.yes_ask # <<>>
                      /\ m.yes_bid[1] # 0 /\ m.yes_ask[1] # 0
        IN  /\ got.spread = IF quoted THEN m.yes_ask[1] - m.yes_bid[1] ELSE 0
            /\ got.is_wide = (got.spread > 10)
            /\ (m.yes_bid = <<40>> /\ m.yes_ask = <<55>>)
                  => got = [spread |-> 15, is_wide |-> TRUE]
            /\ (m.yes_bid = <<40>> /\ m.yes_ask = <<45>>)
                  => got = [spread |-> 5, is_wide |-> FALSE]
            /\ (m.yes_bid = <<0>> /\ m.yes_ask = <<50>>)
                  => got = [spread |-> 0, is_wide |-> FALSE]
            /\ (got.spread = 10) => ~got.is_wide

\* A quote whose spread is exactly 10 was measured.
C7_Witness ==
    /\ probe # <<>>
    /\ probe[1].yes_bid = <<40>>
    /\ probe[1].yes_ask = <<50>>
    /\ probeRow[1].spread.spread = 10

\* A cell shows an optional price: a dash for none, the dollar text for a value
\* (a value of 0 may also be shown as a dash).
Shows(cell, price) ==
    IF price = <<>> THEN cell = "-"
    ELSE \/ cell = cents_to_dollars(price[1])
         \/ (price[1] = 0 /\ cell = "-")

\* C8 as stated, "present" meaning given at all: yes is yesBid if present, else
\* lastPrice if present, else a dash; no is noBid if present, else 100 - yes if yes
\* is present, else a dash.
C8_PricesFallBackWhenAbsent ==
    probe # <<>> =>
        LET m == probe[1]
            row == probeRow[1].row
            yes == IF m.yes_bid # <<>> THEN m.yes_bid
                   ELSE IF m.last_price # <<>> THEN m.last_price ELSE <<>>
            no == IF m.no_bid # <<>> THEN m.no_bid
                  ELSE IF yes # <<>> THEN <<100 - yes[1]>> ELSE <<>>
        IN  Shows(row.yes, yes) /\ Shows(row.no, no)

Given(x) == x # <<>> /\ x[1] # 0

\* C8 as amended: yes is yesBid if present and non-zero, else lastPrice if present
\* and non-zero, else a dash; no is noBid if present and non-zero, else 100 - yes if
\* a yes price is shown, else a dash. With yesBid and noBid absent and lastPrice 62
\* the cells read "$0.62" and "$0.38"; with no yes price the no cell comes from
\* noBid alone.
C8_PricesFallBackWhenAbsentOrZero ==
    probe # <<>> =>
        LET m == probe[1]
            row == probeRow[1].row
            yes == IF Given(m.yes_bid) THEN m.yes_bid
                   ELSE IF Given(m.last_price) THEN m.last_price ELSE <<>>
            no == IF Given(m.no_bid) THEN m.no_bid
                  ELSE IF yes # <<>> THEN <<100 - yes[1]>> ELSE <<>>
        IN  /\ Shows(row.yes, yes)
            /\ Shows(row.no, no)
            /\ (yes = <<>>) = (row.yes = "-")
            /\ (m.yes_bid = <<>> /\ m.no_bid = <<>> /\ m.last_price = <<62>>)
                  => (row.yes = "$0.62" /\ row.no = "$0.38")
            /\ (yes = <<>> /\ Given(m.no_bid)) => row.no = cents_to_dollars(m.no_bid[1])
            /\ (yes = <<>> /\ ~Given(m.no_bid)) => row.no = "-"

\* The row of a market with no bids and a last trade at 62.
C8_Witness ==
    /\ probe # <<>>
    /\ probe[1].yes_bid = <<>>
    /\ probe[1].no_bid = <<>>
    /\ probe[1].last_price = <<62>>
    /\ probeRow[1].row.yes = "$0.62"
    /\ probeRow[1].row.no = "$0.38"

\* C9: every request of one fetch carries status "open", limit 200 and the window
\* of the one captured now (min = now in whole seconds, max = min + 24 * 3600); the
\* first carries no cursor and each later one the cursor the answer before it
\* returned.
C9_SameFiltersCursorChained ==
    \A i \in 1..Len(requests) :
        /\ requests[i].status = "open"
        /\ requests[i].limit = 200
        /\ requests[i].min_close_ts = now[1] \div TicksPerSec
        /\ requests[i].max_close_ts = (now[1] \div TicksPerSec) + 24 * 3600
        /\ requests[i].min_close_ts = requests[1].min_close_ts
        /\ requests[i].max_close_ts = requests[1].max_close_ts
        /\ requests[i].cursor = IF i = 1 THEN <<>> ELSE returned[i - 1]

\* A second request went out with the cursor "a" after the clock had moved into
\* the next second.
C9_Witness ==
    /\ Len(requests) >= 2
    /\ requests[2].cursor = <<"a">>
    /\ clock \div TicksPerSec > now[1] \div TicksPerSec

\* C10: the fetch loop, once entered, is left, whatever cursors come back.
C10_FetchLoopTerminates == (pc = "fetch") ~> (pc # "fetch")

====
